---- MODULE Spec2Model ----
(***************************************************************************)
(* Product search of ecom-search-engine: ProductController.search,         *)
(* ProductService.searchProducts with its Elasticsearch call, and the      *)
(* in-memory _fallbackSearch.                                              *)
(*                                                                         *)
(* Representation.  A JavaScript number n is the integer 100*n (two        *)
(* decimals, fixed point); NaN is a value of its own.  A JavaScript string *)
(* is the sequence of its characters.  A value whose type the code tests   *)
(* at run time (a query parameter, a filter) is a tagged record, see       *)
(* Undefined, Str, Num, Bool and Obj.                                      *)
(***************************************************************************)
EXTENDS Integers, Sequences, FiniteSets, TLC

(* Number of search invocations that can be in flight in one run. *)
MaxReq == 2

(* Largest catalog the evaluator is run on when the catalog is an input. *)
MaxCatalog == 3

---------------------------------------------------------------------------
(* JavaScript values *)

NaN == -99999999

Undefined == [t |-> "undefined", s |-> <<>>, n |-> 0]
Str(s) == [t |-> "string", s |-> s, n |-> 0]
Num(n) == [t |-> "number", s |-> <<>>, n |-> n]
Bool(b) == [t |-> "boolean", s |-> <<>>, n |-> IF b THEN 100 ELSE 0]

(* An array or object, with the string it converts to: what req.query      *)
(* holds for a parameter given twice (?query=a&query=b) is Obj("a,b").     *)
Obj(s) == [t |-> "object", s |-> s, n |-> 0]

(* if (v): undefined, "", 0, NaN and false are falsy; an array or object   *)
(* is truthy                                                               *)
Truthy(v) ==
  CASE v.t = "undefined" -> FALSE
    [] v.t = "string" -> Len(v.s) > 0
    [] v.t = "number" -> v.n # 0 /\ v.n # NaN
    [] v.t = "boolean" -> v.n # 0
    [] OTHER -> TRUE

UpperChars ==
  <<"A","B","C","D","E","F","G","H","I","J","K","L","M",
    "N","O","P","Q","R","S","T","U","V","W","X","Y","Z">>

LowerChars ==
  <<"a","b","c","d","e","f","g","h","i","j","k","l","m",
    "n","o","p","q","r","s","t","u","v","w","x","y","z">>

DigitChars == <<"0","1","2","3","4","5","6","7","8","9">>

IsDigit(c) == \E i \in 1..10 : DigitChars[i] = c

DigitVal(c) == (CHOOSE i \in 1..10 : DigitChars[i] = c) - 1

LowerChar(c) ==
  IF \E i \in 1..26 : UpperChars[i] = c
  THEN LowerChars[CHOOSE i \in 1..26 : UpperChars[i] = c]
  ELSE c

(* String.prototype.toLowerCase *)
toLowerCase(s) == [i \in 1..Len(s) |-> LowerChar(s[i])]

(* String.prototype.includes *)
includes(s, sub) ==
  \E i \in 0..(Len(s) - Len(sub)) : SubSeq(s, i + 1, i + Len(sub)) = sub

RECURSIVE TrimStart(_)
TrimStart(s) ==
  IF s # <<>> /\ Head(s) = " " THEN TrimStart(Tail(s)) ELSE s

RECURSIVE TrimEnd(_)
TrimEnd(s) ==
  IF s # <<>> /\ s[Len(s)] = " " THEN TrimEnd(SubSeq(s, 1, Len(s) - 1)) ELSE s

(* The longest prefix of s made of digits. *)
RECURSIVE DigitPrefix(_)
DigitPrefix(s) ==
  IF s # <<>> /\ IsDigit(Head(s)) THEN <<Head(s)>> \o DigitPrefix(Tail(s)) ELSE <<>>

RECURSIVE DigitsValue(_)
DigitsValue(ds) ==
  IF ds = <<>> THEN 0 ELSE 10 * DigitsValue(SubSeq(ds, 1, Len(ds) - 1)) + DigitVal(ds[Len(ds)])

(* The hundredths a fraction's digits stand for; further digits are dropped. *)
FractionValue(ds) ==
  (IF Len(ds) >= 1 THEN 10 * DigitVal(ds[1]) ELSE 0) + (IF Len(ds) >= 2 THEN DigitVal(ds[2]) ELSE 0)

(* A decimal literal at the start of s: optional sign, digits, and with    *)
(* frac an optional fraction.  n is NaN when no digit was read; rest is    *)
(* what follows the literal.                                               *)
ScanDecimal(s, frac) ==
  LET neg == s # <<>> /\ Head(s) = "-"
      signed == s # <<>> /\ Head(s) \in {"-", "+"}
      body == IF signed THEN Tail(s) ELSE s
      ip == DigitPrefix(body)
      afterInt == SubSeq(body, Len(ip) + 1, Len(body))
      dot == frac /\ afterInt # <<>> /\ Head(afterInt) = "."
      fp == IF dot THEN DigitPrefix(Tail(afterInt)) ELSE <<>>
      useDot == dot /\ (ip # <<>> \/ fp # <<>>)
      rest == IF useDot THEN SubSeq(afterInt, Len(fp) + 2, Len(afterInt)) ELSE afterInt
      mag == 100 * DigitsValue(ip) + FractionValue(fp)
  IN  IF ip = <<>> /\ fp = <<>>
      THEN [n |-> NaN, rest |-> s]
      ELSE [n |-> IF neg THEN 0 - mag ELSE mag, rest |-> rest]

(* Truncation of a number towards zero. *)
TruncN(n) ==
  IF n = NaN THEN NaN ELSE IF n >= 0 THEN (n \div 100) * 100 ELSE 0 - (((0 - n) \div 100) * 100)

(* parseFloat(v): the argument is converted to a string first *)
parseFloat(v) ==
  CASE v.t = "number" -> v.n
    [] v.t \in {"string", "object"} -> ScanDecimal(TrimStart(v.s), TRUE).n
    [] OTHER -> NaN

(* parseInt(v), radix 10 *)
parseInt(v) ==
  CASE v.t = "number" -> TruncN(v.n)
    [] v.t \in {"string", "object"} -> ScanDecimal(TrimStart(v.s), FALSE).n
    [] OTHER -> NaN

(* ToNumber(v), the conversion the operators - * / apply to an operand *)
ToNumber(v) ==
  CASE v.t = "number" -> v.n
    [] v.t = "boolean" -> v.n
    [] v.t = "undefined" -> NaN
    [] OTHER ->
         LET t == TrimEnd(TrimStart(v.s))
             d == ScanDecimal(t, TRUE)
         IN  IF t = <<>> THEN 0 ELSE IF d.rest = <<>> THEN d.n ELSE NaN

jsSub(a, b) == IF a = NaN \/ b = NaN THEN NaN ELSE a - b

jsAdd(a, b) == IF a = NaN \/ b = NaN THEN NaN ELSE a + b

jsMul(a, b) ==
  IF a = NaN \/ b = NaN THEN NaN
  ELSE LET p == a * b IN IF p >= 0 THEN p \div 100 ELSE 0 - ((0 - p) \div 100)

jsGe(a, b) == a # NaN /\ b # NaN /\ a >= b

jsLe(a, b) == a # NaN /\ b # NaN /\ a <= b

(* a === b on numbers *)
jsStrictEq(a, b) == a # NaN /\ b # NaN /\ a = b

---------------------------------------------------------------------------
(* The catalog *)

(* asin 'B014TMV5YE', title 'Sion Softside Expandable Roller Luggage, Black, Checked-Large 29-Inch' *)
SionLuggage ==
  [asin |-> <<"B","0","1","4","T","M","V","5","Y","E">>,
   title |-> <<"S","i","o","n"," ","S","o","f","t","s","i","d","e"," ","E","x","p","a","n","d","a",
             "b","l","e"," ","R","o","l","l","e","r"," ","L","u","g","g","a","g","e",","," ","B","l",
             "a","c","k",","," ","C","h","e","c","k","e","d","-","L","a","r","g","e"," ","2","9","-",
             "I","n","c","h">>,
   imgUrl |-> "https://m.media-amazon.com/images/I/815dLQKYIYL._AC_UL320_.jpg",
   productURL |-> "https://www.amazon.com/dp/B014TMV5YE",
   stars |-> 450, reviews |-> 0, price |-> 13999, listPrice |-> 0,
   category_id |-> 10400, isBestSeller |-> FALSE, boughtInLastMonth |-> 200000]

(* asin 'B08N5WRWNW', title 'Samsonite Omni PC Hardside Expandable Luggage with Spinner Wheels' *)
SamsoniteLuggage ==
  [asin |-> <<"B","0","8","N","5","W","R","W","N","W">>,
   title |-> <<"S","a","m","s","o","n","i","t","e"," ","O","m","n","i"," ","P","C"," ","H","a","r",
             "d","s","i","d","e"," ","E","x","p","a","n","d","a","b","l","e"," ","L","u","g","g","a",
             "g","e"," ","w","i","t","h"," ","S","p","i","n","n","e","r"," ","W","h","e","e","l",
             "s">>,
   imgUrl |-> "https://m.media-amazon.com/images/I/81L+gu1bLJL._AC_UL320_.jpg",
   productURL |-> "https://www.amazon.com/dp/B08N5WRWNW",
   stars |-> 470, reviews |-> 1523400, price |-> 11999, listPrice |-> 15999,
   category_id |-> 10400, isBestSeller |-> TRUE, boughtInLastMonth |-> 500000]

(* asin 'B07ZPKN6YR', title 'Apple AirPods Pro (2nd Generation) Wireless Earbuds' *)
AppleAirPods ==
  [asin |-> <<"B","0","7","Z","P","K","N","6","Y","R">>,
   title |-> <<"A","p","p","l","e"," ","A","i","r","P","o","d","s"," ","P","r","o"," ","(","2","n",
             "d"," ","G","e","n","e","r","a","t","i","o","n",")"," ","W","i","r","e","l","e","s","s",
             " ","E","a","r","b","u","d","s">>,
   imgUrl |-> "https://m.media-amazon.com/images/I/61SUj2aKoEL._AC_UL320_.jpg",
   productURL |-> "https://www.amazon.com/dp/B07ZPKN6YR",
   stars |-> 480, reviews |-> 8945300, price |-> 24999, listPrice |-> 27999,
   category_id |-> 20100, isBestSeller |-> TRUE, boughtInLastMonth |-> 1500000]

(* asin 'B09X5JNC5R', title 'Sony WH-1000XM5 Wireless Noise Canceling Headphones' *)
SonyHeadphones ==
  [asin |-> <<"B","0","9","X","5","J","N","C","5","R">>,
   title |-> <<"S","o","n","y"," ","W","H","-","1","0","0","0","X","M","5"," ","W","i","r","e","l",
             "e","s","s"," ","N","o","i","s","e"," ","C","a","n","c","e","l","i","n","g"," ","H","e",
             "a","d","p","h","o","n","e","s">>,
   imgUrl |-> "https://m.media-amazon.com/images/I/61vFO3CUoYL._AC_UL320_.jpg",
   productURL |-> "https://www.amazon.com/dp/B09X5JNC5R",
   stars |-> 460, reviews |-> 1254300, price |-> 39800, listPrice |-> 41999,
   category_id |-> 20100, isBestSeller |-> TRUE, boughtInLastMonth |-> 800000]

(* asin 'B0BSHF7WHW', title 'Amazon Basics Hardside Spinner Luggage - 20-Inch, Carry-On' *)
AmazonBasicsLuggage ==
  [asin |-> <<"B","0","B","S","H","F","7","W","H","W">>,
   title |-> <<"A","m","a","z","o","n"," ","B","a","s","i","c","s"," ","H","a","r","d","s","i","d",
             "e"," ","S","p","i","n","n","e","r"," ","L","u","g","g","a","g","e"," ","-"," ","2","0",
             "-","I","n","c","h",","," ","C","a","r","r","y","-","O","n">>,
   imgUrl |-> "https://m.media-amazon.com/images/I/81r1KHHYX1L._AC_UL320_.jpg",
   productURL |-> "https://www.amazon.com/dp/B0BSHF7WHW",
   stars |-> 430, reviews |-> 342100, price |-> 5499, listPrice |-> 7999,
   category_id |-> 10400, isBestSeller |-> FALSE, boughtInLastMonth |-> 120000]

(* this.products after _initializeDummyData() *)
SeedProducts == <<SionLuggage, SamsoniteLuggage, AppleAirPods>>

(* The documents scripts/init-elasticsearch.js loads into the index. *)
sampleProducts ==
  <<SionLuggage, SamsoniteLuggage, AppleAirPods, SonyHeadphones, AmazonBasicsLuggage>>

---------------------------------------------------------------------------
(* The in-memory evaluator *)

(* A filters object: a key that is absent reads as undefined. *)
NoFilters ==
  [category |-> Undefined, category_id |-> Undefined, minPrice |-> Undefined,
   maxPrice |-> Undefined, isBestSeller |-> Undefined, minStars |-> Undefined]

BoolNum(b) == IF b THEN 100 ELSE 0

(* isBestSeller === 'true' || isBestSeller === true *)
IsBestFlag(v) ==
  \/ v.t = "string" /\ v.s = <<"t","r","u","e">>
  \/ v.t = "boolean" /\ v.n # 0

MatchesQuery(product, query) ==
  LET lowerQuery == toLowerCase(query.s)
  IN  \/ includes(toLowerCase(product.title), lowerQuery)
      \/ includes(toLowerCase(product.asin), lowerQuery)

CategoryTest(product, category_id) ==
  jsStrictEq(product.category_id, parseInt(category_id))

(* The minPrice line with the comparison left out. *)
MinPriceTestNone(product, minPrice) == TRUE

MinPriceTest(product, minPrice) == jsGe(product.price, parseFloat(minPrice))

(* The maxPrice line as a copy of the minPrice line. *)
MaxPriceTestGe(product, maxPrice) == jsGe(product.price, parseFloat(maxPrice))

MaxPriceTest(product, maxPrice) == jsLe(product.price, parseFloat(maxPrice))

(* The minStars line with parseInt in the place of parseFloat. *)
MinStarsTestInt(product, minStars) == jsGe(product.stars, parseInt(minStars))

MinStarsTest(product, minStars) == jsGe(product.stars, parseFloat(minStars))

BestSellerTest(product, isBestSeller) ==
  product.isBestSeller = IsBestFlag(isBestSeller)

(* The comparator without its last key. *)
compareNoPopularity(a, b) ==
  IF a.isBestSeller # b.isBestSeller
  THEN BoolNum(b.isBestSeller) - BoolNum(a.isBestSeller)
  ELSE b.stars - a.stars

(* The comparator handed to results.sort: negative puts a first. *)
compareProducts(a, b) ==
  IF a.isBestSeller # b.isBestSeller
  THEN BoolNum(b.isBestSeller) - BoolNum(a.isBestSeller)
  ELSE IF a.stars # b.stars
       THEN b.stars - a.stars
       ELSE b.boughtInLastMonth - a.boughtInLastMonth

(* x put into the sorted sequence s, behind every element that does not    *)
(* compare greater than it.                                                *)
RECURSIVE InsertSorted(_, _)
InsertSorted(s, x) ==
  IF s # <<>> /\ compareProducts(s[Len(s)], x) > 0
  THEN Append(InsertSorted(SubSeq(s, 1, Len(s) - 1), x), s[Len(s)])
  ELSE Append(s, x)

(* Array.prototype.sort with compareProducts: a stable sort *)
RECURSIVE sortResults(_)
sortResults(s) ==
  IF s = <<>> THEN <<>>
  ELSE InsertSorted(sortResults(SubSeq(s, 1, Len(s) - 1)), s[Len(s)])

(* The filters with the result of the query filter thrown away. *)
PassesFallbackNoQuery(product, query, filters) ==
  /\ Truthy(filters.category_id) => CategoryTest(product, filters.category_id)
  /\ Truthy(filters.minPrice) => MinPriceTest(product, filters.minPrice)
  /\ Truthy(filters.maxPrice) => MaxPriceTest(product, filters.maxPrice)
  /\ Truthy(filters.minStars) => MinStarsTest(product, filters.minStars)
  /\ filters.isBestSeller # Undefined => BestSellerTest(product, filters.isBestSeller)

(* The filters of _fallbackSearch, each applied when its guard holds. *)
PassesFallback(product, query, filters) ==
  /\ Truthy(query) => MatchesQuery(product, query)
  /\ Truthy(filters.category_id) => CategoryTest(product, filters.category_id)
  /\ Truthy(filters.minPrice) => MinPriceTest(product, filters.minPrice)
  /\ Truthy(filters.maxPrice) => MaxPriceTest(product, filters.maxPrice)
  /\ Truthy(filters.minStars) => MinStarsTest(product, filters.minStars)
  /\ filters.isBestSeller # Undefined => BestSellerTest(product, filters.isBestSeller)

(* The evaluator, were the last product of the catalog left out. *)
_fallbackSearchButLast(catalog, query, filters) ==
  sortResults(SelectSeq(SubSeq(catalog, 1, Len(catalog) - 1),
                        LAMBDA p : PassesFallback(p, query, filters)))

_fallbackSearch(catalog, query, filters) ==
  sortResults(SelectSeq(catalog, LAMBDA product : PassesFallback(product, query, filters)))

---------------------------------------------------------------------------
(* The request body searchProducts builds *)

multiMatch(query) ==
  [kind |-> "multi_match", query |-> query, fields |-> <<"title^2", "asin">>,
   fuzziness |-> "AUTO", operator |-> "or"]

matchAll == [kind |-> "match_all"]

termClause(field, value) == [kind |-> "term", field |-> field, value |-> value]

(* A range clause holds the bounds that were set: gte, lte, both. *)
rangeClause(field, range) == [kind |-> "range", field |-> field, range |-> range]

(* The must clauses with the text clause pushed whatever the query is. *)
mustClausesAlways(query) == <<multiMatch(query)>>

mustClauses(query) == IF Truthy(query) THEN <<multiMatch(query)>> ELSE <<>>

(* const priceRange = {}; if (minPrice) ...gte; if (maxPrice) ...lte *)
priceRange(minPrice, maxPrice) ==
  [k \in (IF Truthy(minPrice) THEN {"gte"} ELSE {}) \cup (IF Truthy(maxPrice) THEN {"lte"} ELSE {})
     |-> IF k = "gte" THEN parseFloat(minPrice) ELSE parseFloat(maxPrice)]

(* The filter clauses without the one on stars. *)
filterClausesNoStars(filters) ==
  (IF Truthy(filters.category_id)
   THEN <<termClause("category_id", parseInt(filters.category_id))>> ELSE <<>>)
  \o (IF DOMAIN priceRange(filters.minPrice, filters.maxPrice) # {}
      THEN <<rangeClause("price", priceRange(filters.minPrice, filters.maxPrice))>> ELSE <<>>)
  \o (IF filters.isBestSeller # Undefined
      THEN <<termClause("isBestSeller", IsBestFlag(filters.isBestSeller))>> ELSE <<>>)

filterClauses(filters) ==
  (IF Truthy(filters.category_id)
   THEN <<termClause("category_id", parseInt(filters.category_id))>> ELSE <<>>)
  \o (IF DOMAIN priceRange(filters.minPrice, filters.maxPrice) # {}
      THEN <<rangeClause("price", priceRange(filters.minPrice, filters.maxPrice))>> ELSE <<>>)
  \o (IF Truthy(filters.minStars)
      THEN <<rangeClause("stars", [k \in {"gte"} |-> parseFloat(filters.minStars)])>> ELSE <<>>)
  \o (IF filters.isBestSeller # Undefined
      THEN <<termClause("isBestSeller", IsBestFlag(filters.isBestSeller))>> ELSE <<>>)

esQuery(query, filters) ==
  [must |-> IF Len(mustClauses(query)) > 0 THEN mustClauses(query) ELSE <<matchAll>>,
   filter |-> filterClauses(filters)]

(* sort: [{ _score: { order: 'desc' } }, { isBestSeller: ... }, ...] *)
sortSpec ==
  <<[field |-> "_score", order |-> "desc"], [field |-> "isBestSeller", order |-> "desc"],
    [field |-> "stars", order |-> "desc"], [field |-> "boughtInLastMonth", order |-> "desc"]>>

(* size: 100 *)
MaxResults == 100

(* The search body, were its size larger than any index. *)
searchBodyUnbounded(query, filters) ==
  [query |-> esQuery(query, filters), sort |-> sortSpec, size |-> 100 * MaxResults]

searchBody(query, filters) ==
  [query |-> esQuery(query, filters), sort |-> sortSpec, size |-> MaxResults]

---------------------------------------------------------------------------
(* The search engine, as far as its contract with searchProducts goes *)

IsAlnum(c) ==
  \/ IsDigit(c)
  \/ \E i \in 1..26 : UpperChars[i] = c \/ LowerChars[i] = c

(* The standard analyzer of the title field: lower-cased words. *)
RECURSIVE EsTokens(_, _)
EsTokens(s, cur) ==
  IF s = <<>> THEN (IF cur = <<>> THEN {} ELSE {cur})
  ELSE IF IsAlnum(Head(s)) THEN EsTokens(Tail(s), Append(cur, LowerChar(Head(s))))
  ELSE (IF cur = <<>> THEN {} ELSE {cur}) \cup EsTokens(Tail(s), <<>>)

(* fuzziness AUTO: the edits allowed for a term of this length *)
AutoFuzziness(len) == IF len <= 2 THEN 0 ELSE IF len <= 5 THEN 1 ELSE 2

(* a can be turned into b with at most k edits (insert, delete, replace,   *)
(* swap of neighbours).                                                    *)
RECURSIVE WithinEdits(_, _, _)
WithinEdits(a, b, k) ==
  IF a = <<>> THEN Len(b) <= k
  ELSE IF b = <<>> THEN Len(a) <= k
  ELSE IF Head(a) = Head(b) THEN WithinEdits(Tail(a), Tail(b), k)
  ELSE /\ k > 0
       /\ \/ WithinEdits(Tail(a), b, k - 1)
          \/ WithinEdits(a, Tail(b), k - 1)
          \/ WithinEdits(Tail(a), Tail(b), k - 1)
          \/ /\ Len(a) >= 2 /\ Len(b) >= 2 /\ a[1] = b[2] /\ a[2] = b[1]
             /\ WithinEdits(Tail(Tail(a)), Tail(Tail(b)), k - 1)

FuzzyTerm(term, indexed) == WithinEdits(term, indexed, AutoFuzziness(Len(term)))

(* The query terms that match a word of the title (operator: or). *)
TitleHits(doc, text) ==
  {t \in EsTokens(text, <<>>) : \E w \in EsTokens(doc.title, <<>>) : FuzzyTerm(t, w)}

(* asin is a keyword field: the whole text against the whole value. *)
AsinHit(doc, text) == FuzzyTerm(text, doc.asin)

MultiMatch(doc, clause) ==
  TitleHits(doc, clause.query.s) # {} \/ AsinHit(doc, clause.query.s)

(* The relevance score: the engine's own; here the matched terms, the      *)
(* title boosted by 2.                                                     *)
EsScore(doc, must) ==
  IF must.kind = "match_all" THEN 100
  ELSE 200 * Cardinality(TitleHits(doc, must.query.s))
       + (IF AsinHit(doc, must.query.s) THEN 100 ELSE 0)

EsFilter(doc, clause) ==
  IF clause.kind = "term"
  THEN (IF clause.field = "category_id"
        THEN doc.category_id = clause.value ELSE doc.isBestSeller = clause.value)
  ELSE LET v == IF clause.field = "price" THEN doc.price ELSE doc.stars
       IN  /\ ("gte" \in DOMAIN clause.range /\ clause.range.gte # NaN) => v >= clause.range.gte
           /\ ("lte" \in DOMAIN clause.range /\ clause.range.lte # NaN) => v <= clause.range.lte

EsMatches(doc, q) ==
  /\ q.must[1].kind = "multi_match" => MultiMatch(doc, q.must[1])
  /\ \A i \in 1..Len(q.filter) : EsFilter(doc, q.filter[i])

(* The request is one the engine answers: the index is there, the text     *)
(* of a multi_match is a string, and no term is null (NaN in JSON).        *)
EsAccepts(index, body) ==
  /\ index.exists
  /\ body.query.must[1].kind = "multi_match" => body.query.must[1].query.t = "string"
  /\ \A i \in 1..Len(body.query.filter) :
        body.query.filter[i].field = "category_id" => body.query.filter[i].value # NaN

EsHit(doc, must) == [_id |-> doc.asin, _score |-> EsScore(doc, must), _source |-> doc]

(* Order of two hits under sortSpec: negative puts a first. *)
compareHits(a, b) ==
  IF a._score # b._score THEN b._score - a._score
  ELSE compareProducts(a._source, b._source)

(* Array.prototype.sort with a comparator, cmp[i, j] its value on s[i] and *)
(* s[j]: stable, each element after the elements the comparator puts       *)
(* before it.                                                              *)
SortBy(s, cmp) ==
  LET rank == [i \in 1..Len(s) |->
                 1 + Cardinality({j \in 1..Len(s) :
                                    \/ cmp[j, i] < 0
                                    \/ cmp[j, i] = 0 /\ j < i})]
  IN  [k \in 1..Len(s) |-> s[CHOOSE i \in 1..Len(s) : rank[i] = k]]

(* response.hits.hits for a request the engine answers *)
EsSearch(index, body) ==
  LET found == SelectSeq(index.docs, LAMBDA doc : EsMatches(doc, body.query))
      unsorted == [i \in 1..Len(found) |-> EsHit(found[i], body.query.must[1])]
      hits == SortBy(unsorted, [i \in 1..Len(found), j \in 1..Len(found) |->
                                  compareHits(unsorted[i], unsorted[j])])
  IN  SubSeq(hits, 1, IF Len(hits) < body.size THEN Len(hits) ELSE body.size)

(* { ...hit._source, _score: hit._score, _id: hit._id } *)
formatHit(hit) ==
  [f \in DOMAIN hit._source \cup {"_score", "_id"} |->
     IF f = "_score" THEN hit._score ELSE IF f = "_id" THEN hit._id ELSE hit._source[f]]

(* { ...product, indexedAt: new Date() } *)
IndexedDoc(product) ==
  [f \in DOMAIN product \cup {"indexedAt"} |->
     IF f = "indexedAt" THEN "indexedAt" ELSE product[f]]

---------------------------------------------------------------------------
(* Requests *)

VARIABLES
  products,   \* this.products of the ProductService
  esIndex,    \* the products index of the search engine
  calls,      \* the search invocations, by slot
  server      \* the server process: its http.Server, its timers, its exit

vars == <<products, esIndex, calls, server>>

Req == 1..MaxReq

NoResponse == [status |-> 0]

(* req.query of a request that carries no parameter *)
NoQuery ==
  [query |-> Undefined, category |-> Undefined, minPrice |-> Undefined,
   maxPrice |-> Undefined, category_id |-> Undefined, minStars |-> Undefined,
   isBestSeller |-> Undefined, page |-> Undefined, limit |-> Undefined]

IdleCall ==
  [pc |-> "idle", via |-> "none", method |-> "", path |-> <<>>, req |-> NoQuery,
   query |-> Undefined, filters |-> NoFilters,
   page |-> Undefined, limit |-> Undefined, body |-> <<>>,
   searchCalls |-> 0, fallbackRuns |-> 0, outcome |-> "none",
   settled |-> "pending", returned |-> <<>>, res |-> NoResponse, log |-> <<>>]

logEntry(level, message, meta) == [level |-> level, message |-> message, meta |-> meta]

(* error.message of the ways the engine call fails *)
FailureKinds == {"reject", "timeout", "error_response", "malformed"}

errorMessage(kind) ==
  CASE kind = "reject" -> "connect ECONNREFUSED"
    [] kind = "timeout" -> "Request timed out"
    [] kind = "error_response" -> "search_phase_execution_exception"
    [] OTHER -> "Cannot read properties of undefined (reading 'hits')"

(* searchProducts up to its await: the log line, the query, the one call   *)
(* of esClient.search.                                                     *)
beginSearch(c, query, filters) ==
  [c EXCEPT !.pc = "awaitEngine", !.query = query, !.filters = filters,
            !.body = searchBody(query, filters),
            !.searchCalls = @ + 1,
            !.log = Append(@, logEntry("info", "Product search initiated with Elasticsearch",
                                       [query |-> query, filters |-> filters]))]

(* ToIntegerOrInfinity of a slice argument, then its clamp into 0..len *)
sliceIndex(n, len) ==
  LET rel == IF n = NaN THEN 0 ELSE TruncN(n) \div 100
  IN  IF rel < 0 THEN (IF len + rel > 0 THEN len + rel ELSE 0)
      ELSE (IF rel < len THEN rel ELSE len)

(* Array.prototype.slice(start, end) *)
slice(arr, start, end) ==
  SubSeq(arr, sliceIndex(start, Len(arr)) + 1, sliceIndex(end, Len(arr)))

startIndex(page, limit) == jsMul(jsSub(ToNumber(page), 100), ToNumber(limit))

(* The end of the slice, were it the limit and not the offset plus it. *)
endIndexOfLimit(page, limit) == parseInt(limit)

endIndex(page, limit) == jsAdd(startIndex(page, limit), parseInt(limit))

(* The page count with Math.floor in the place of Math.ceil. *)
pageCountFloor(total, limit) ==
  LET d == ToNumber(limit)
      num == IF d < 0 THEN 0 - 100 * total ELSE 100 * total
      den == IF d < 0 THEN 0 - d ELSE d
  IN  IF d = NaN \/ d = 0 THEN NaN
      ELSE 100 * (num \div den)

(* Math.ceil(total / limit); a result that is not finite is NaN here       *)
(* (res.json writes both as null).                                         *)
pageCount(total, limit) ==
  LET d == ToNumber(limit)
      num == IF d < 0 THEN 0 - 100 * total ELSE 100 * total
      den == IF d < 0 THEN 0 - d ELSE d
  IN  IF d = NaN \/ d = 0 THEN NaN
      ELSE 100 * (0 - ((0 - num) \div den))

paginatedResults(allResults, page, limit) ==
  slice(allResults, startIndex(page, limit), endIndex(page, limit))

(* The pagination object with total counted after slicing. *)
paginationOfPage(allResults, page, limit) ==
  [page |-> parseInt(page), limit |-> parseInt(limit),
   total |-> Len(paginatedResults(allResults, page, limit)) * 100,
   pages |-> pageCount(Len(allResults), limit)]

(* The pagination object of the response; total is allResults.length. *)
pagination(allResults, page, limit) ==
  [page |-> parseInt(page), limit |-> parseInt(limit),
   total |-> Len(allResults) * 100, pages |-> pageCount(Len(allResults), limit)]

(* ProductController.search after its await returned allResults *)
respondOk(c, allResults) ==
  [c EXCEPT !.pc = "done",
            !.res = [status |-> 200,
                     body |-> [query |-> c.query,
                               filters |-> [category |-> c.filters.category,
                                            minPrice |-> c.filters.minPrice,
                                            maxPrice |-> c.filters.maxPrice],
                               pagination |-> pagination(allResults, c.page, c.limit),
                               results |-> paginatedResults(allResults, c.page, c.limit)]],
            !.log = Append(@, logEntry("info", "Search completed successfully",
                                       [query |-> c.query, resultCount |-> Len(allResults)]))]

(* The catch block of ProductController.search, were the error's message   *)
(* sent in the body.                                                       *)
respondErrorDetailed(c, message) ==
  [c EXCEPT !.pc = "done",
            !.res = [status |-> 500,
                     body |-> [error |-> "Internal server error", message |-> message]],
            !.log = Append(@, logEntry("error", "Search operation failed", [error |-> message]))]

(* ProductController.search when its await threw *)
respondError(c, message) ==
  [c EXCEPT !.pc = "done",
            !.res = [status |-> 500,
                     body |-> [error |-> "Internal server error",
                               message |-> "Failed to perform search"]],
            !.log = Append(@, logEntry("error", "Search operation failed", [error |-> message]))]

(* searchProducts returned: the caller goes on. *)
returnResults(c, results) ==
  LET d == [c EXCEPT !.settled = "returned", !.returned = results]
  IN  IF c.via = "http" THEN respondOk(d, results) ELSE [d EXCEPT !.pc = "done"]

(* searchProducts threw: the caller goes on. *)
throwError(c, message) ==
  LET d == [c EXCEPT !.settled = "rejected"]
  IN  IF c.via = "http" THEN respondError(d, message) ELSE [d EXCEPT !.pc = "done"]

(* query.toLowerCase() of _fallbackSearch on a value that is no string *)
FallbackThrows(query) == Truthy(query) /\ query.t # "string"

(* The catch block, were it to call the engine a second time before it    *)
(* falls back.                                                             *)
catchAndRetry(c, kind) ==
  IF c.searchCalls < 2
  THEN [c EXCEPT !.searchCalls = @ + 1]
  ELSE returnResults([c EXCEPT !.outcome = kind, !.fallbackRuns = @ + 1],
                     _fallbackSearch(products, c.query, c.filters))

(* The catch block, were a timeout answered with no results. *)
catchTimeoutEmpty(c, kind) ==
  returnResults([c EXCEPT !.outcome = kind, !.fallbackRuns = @ + 1],
                IF kind = "timeout" THEN <<>>
                ELSE _fallbackSearch(products, c.query, c.filters))

(* The catch block, were the query it evaluates kept in a field of the     *)
(* service that every invocation writes: the query of an invocation still  *)
(* waiting for the engine, when there is one.                              *)
catchAndFallbackShared(c, kind) ==
  LET waiting == {r \in Req : calls[r].pc = "awaitEngine" /\ calls[r] # c}
      query == IF waiting = {} THEN c.query ELSE calls[CHOOSE r \in waiting : TRUE].query
      d == [c EXCEPT !.outcome = kind,
                     !.log = Append(@, logEntry("error",
                                "Elasticsearch search failed, falling back to in-memory search",
                                [error |-> errorMessage(kind), query |-> c.query]))]
  IN  IF FallbackThrows(query)
      THEN throwError([d EXCEPT !.fallbackRuns = @ + 1], "query.toLowerCase is not a function")
      ELSE returnResults([d EXCEPT !.fallbackRuns = @ + 1],
                         _fallbackSearch(products, query, c.filters))

(* The catch block of searchProducts. *)
catchAndFallback(c, kind) ==
  LET d == [c EXCEPT !.outcome = kind,
                     !.log = Append(@, logEntry("error",
                                "Elasticsearch search failed, falling back to in-memory search",
                                [error |-> errorMessage(kind), query |-> c.query]))]
  IN  IF FallbackThrows(c.query)
      THEN throwError([d EXCEPT !.fallbackRuns = @ + 1], "query.toLowerCase is not a function")
      ELSE returnResults([d EXCEPT !.fallbackRuns = @ + 1],
                         _fallbackSearch(products, c.query, c.filters))

(* searchProducts after its await resolved with hits. *)
formatResults(c) ==
  LET hits == EsSearch(esIndex, c.body)
      results == [i \in 1..Len(hits) |-> formatHit(hits[i])]
  IN  returnResults([c EXCEPT !.outcome = "hits",
                              !.log = Append(@, logEntry("info", "Elasticsearch search completed",
                                         [query |-> c.query, resultCount |-> Len(results)]))],
                    results)

(* ProductController.search without the test of the query parameter. *)
searchRequestUnvalidated(c, q) ==
  LET d == [c EXCEPT !.via = "http", !.req = q, !.query = q.query,
              !.page = IF q.page = Undefined THEN Num(100) ELSE q.page,
              !.limit = IF q.limit = Undefined THEN Num(1000) ELSE q.limit]
  IN  beginSearch(d, q.query,
                  [category |-> q.category, minPrice |-> q.minPrice,
                   maxPrice |-> q.maxPrice, category_id |-> Undefined,
                   isBestSeller |-> Undefined, minStars |-> Undefined])

(* ProductController.search up to its await, on the call record c with     *)
(* req.query = q                                                           *)
searchRequest(c, q) ==
  LET d == [c EXCEPT !.via = "http", !.req = q, !.query = q.query,
              !.page = IF q.page = Undefined THEN Num(100) ELSE q.page,
              !.limit = IF q.limit = Undefined THEN Num(1000) ELSE q.limit]
  IN  IF ~Truthy(q.query)
      THEN [d EXCEPT !.pc = "done",
              !.res = [status |-> 400,
                       body |-> [error |-> "Query parameter is required",
                                 message |-> "Please provide a search query using ?query=your-search-term"]],
              !.log = Append(@, logEntry("warn", "Search attempted without query parameter",
                                         [none |-> TRUE]))]
      ELSE beginSearch(d, q.query,
                       [category |-> q.category, minPrice |-> q.minPrice,
                        maxPrice |-> q.maxPrice, category_id |-> Undefined,
                        isBestSeller |-> Undefined, minStars |-> Undefined])

(* GET /api/search *)
search(r, q) ==
  /\ calls[r].pc = "idle"
  /\ calls' = [calls EXCEPT ![r] = searchRequest(@, q)]
  /\ UNCHANGED <<products, esIndex, server>>

(* The literal segments of the mounted paths and of the routes. *)
P_api == <<"a","p","i">>
P_health == <<"h","e","a","l","t","h">>
P_search == <<"s","e","a","r","c","h">>
P_products == <<"p","r","o","d","u","c","t","s">>
P_categories == <<"c","a","t","e","g","o","r","i","e","s">>
P_api_docs == <<"a","p","i","-","d","o","c","s">>

(* error: 'Product not found' *)
ProductNotFound == <<"P","r","o","d","u","c","t"," ","n","o","t"," ","f","o","u","n","d">>

(* error: 'Endpoint not found' *)
EndpointNotFound == <<"E","n","d","p","o","i","n","t"," ","n","o","t"," ","f","o","u","n","d">>

(* null *)
Null == [t |-> "null", s |-> <<>>, n |-> 0]

(* this.categories of the CategoryService *)
categories ==
  <<[id |-> 100, name |-> "Electronics", count |-> 15000],
    [id |-> 200, name |-> "Sports", count |-> 8000],
    [id |-> 300, name |-> "Clothing", count |-> 20000],
    [id |-> 400, name |-> "Books", count |-> 12000],
    [id |-> 500, name |-> "Home & Garden", count |-> 9500]>>

(* A literal segment of a route matches without regard to case (the        *)
(* default of express() and express.Router()).                             *)
SegIs(seg, lit) == toLowerCase(seg) = lit

(* app.use(prefix, ...): the path starts with the segments of the prefix *)
Mounted(path, prefix) ==
  /\ Len(path) >= Len(prefix)
  /\ \A i \in 1..Len(prefix) : SegIs(path[i], prefix[i])

(* The path a mounted router sees. *)
Rest(path, prefix) == SubSeq(path, Len(prefix) + 1, Len(path))

(* router.get('/', ...) of HealthRouter and of CategoryRouter *)
rootRoute(method, rest) == method = "GET" /\ rest = <<>>

(* ProductRouter: get('/search') before get('/:id'); "next" when neither   *)
(* matches.                                                                *)
productRoute(method, rest) ==
  IF method = "GET" /\ Len(rest) = 1 /\ SegIs(rest[1], P_search) THEN "search"
  ELSE IF method = "GET" /\ Len(rest) = 1 THEN "getById"
  ELSE "next"

(* The handler that answers, were the product router mounted under         *)
(* /api/products alone.                                                    *)
routeSingleMount(method, path) ==
  IF Mounted(path, <<P_api_docs>>) THEN "swaggerUi"
  ELSE IF Mounted(path, <<P_health>>) /\ rootRoute(method, Rest(path, <<P_health>>))
  THEN "check"
  ELSE IF /\ Mounted(path, <<P_api, P_categories>>)
          /\ rootRoute(method, Rest(path, <<P_api, P_categories>>))
  THEN "getAll"
  ELSE IF /\ Mounted(path, <<P_api, P_products>>)
          /\ productRoute(method, Rest(path, <<P_api, P_products>>)) # "next"
  THEN productRoute(method, Rest(path, <<P_api, P_products>>))
  ELSE "notFound"

(* The handler that answers: the middleware and the mounted routers in the *)
(* order Application registers them, the 404 handler last.                 *)
route(method, path) ==
  IF Mounted(path, <<P_api_docs>>) THEN "swaggerUi"
  ELSE IF Mounted(path, <<P_health>>) /\ rootRoute(method, Rest(path, <<P_health>>))
  THEN "check"
  ELSE IF /\ Mounted(path, <<P_api, P_categories>>)
          /\ rootRoute(method, Rest(path, <<P_api, P_categories>>))
  THEN "getAll"
  ELSE IF /\ Mounted(path, <<P_api, P_products>>)
          /\ productRoute(method, Rest(path, <<P_api, P_products>>)) # "next"
  THEN productRoute(method, Rest(path, <<P_api, P_products>>))
  ELSE IF /\ Mounted(path, <<P_api>>)
          /\ productRoute(method, Rest(path, <<P_api>>)) # "next"
  THEN productRoute(method, Rest(path, <<P_api>>))
  ELSE "notFound"

(* this.products.find(p => p.asin === asin), null when there is none *)
getProductById(catalog, asin) ==
  IF \E i \in 1..Len(catalog) : catalog[i].asin = asin
  THEN catalog[CHOOSE i \in 1..Len(catalog) :
                 /\ catalog[i].asin = asin
                 /\ \A j \in 1..(i - 1) : catalog[j].asin # asin]
  ELSE Null

(* ProductController.getById *)
getById(c, id) ==
  LET product == getProductById(products, id)
  IN  IF product = Null
      THEN [c EXCEPT !.via = "getById", !.pc = "done",
              !.res = [status |-> 404, body |-> [error |-> ProductNotFound]],
              !.log = @ \o <<logEntry("debug", "Product details requested", [asin |-> id]),
                            logEntry("warn", "Product not found", [asin |-> id]),
                            logEntry("warn", "Product not found", [productId |-> id])>>]
      ELSE [c EXCEPT !.via = "getById", !.pc = "done",
              !.res = [status |-> 200, body |-> product],
              !.log = @ \o <<logEntry("debug", "Product details requested", [asin |-> id]),
                            logEntry("debug", "Product details retrieved",
                                     [asin |-> id, title |-> product.title])>>]

(* HealthController.check *)
check(c) ==
  [c EXCEPT !.via = "check", !.pc = "done",
     !.res = [status |-> 200,
              body |-> [status |-> "ok", timestamp |-> "timestamp",
                        service |-> "ecom-search-engine"]],
     !.log = Append(@, logEntry("debug", "Health check requested", [none |-> TRUE]))]

(* CategoryController.getAll *)
getAll(c) ==
  [c EXCEPT !.via = "getAll", !.pc = "done",
     !.res = [status |-> 200, body |-> [categories |-> categories]],
     !.log = Append(@, logEntry("debug", "Categories list requested", [none |-> TRUE]))]

(* The documentation pages under /api-docs. *)
swaggerUi(c) ==
  [c EXCEPT !.via = "swaggerUi", !.pc = "done",
     !.res = [status |-> 200, body |-> [html |-> "E-commerce Search API Docs"]]]

(* The 404 handler. *)
notFound(c) ==
  [c EXCEPT !.via = "notFound", !.pc = "done",
     !.res = [status |-> 404, body |-> [error |-> EndpointNotFound]],
     !.log = Append(@, logEntry("warn", "404 - Endpoint not found",
                                [method |-> c.method, url |-> c.path]))]

(* The application answers a request: method, path, req.query. *)
dispatch(c, method, path, q) ==
  LET d == [c EXCEPT !.method = method, !.path = path, !.req = q]
      handler == route(method, path)
  IN  CASE handler = "search" -> searchRequest(d, q)
        [] handler = "getById" -> getById(d, path[Len(path)])
        [] handler = "check" -> check(d)
        [] handler = "getAll" -> getAll(d)
        [] handler = "swaggerUi" -> swaggerUi(d)
        [] OTHER -> notFound(d)

(* A request arrives at the application. *)
request(r, method, path, q) ==
  /\ calls[r].pc = "idle"
  /\ calls' = [calls EXCEPT ![r] = dispatch(@, method, path, q)]
  /\ UNCHANGED <<products, esIndex, server>>

(* The server process after app.listen: no signal yet. elapsed is the time *)
(* since the first signal, timers the times the pending setTimeout calls   *)
(* fall due, both in milliseconds.                                         *)
Listening == [state |-> "running", signal |-> "none", elapsed |-> 0, timers |-> {}, code |-> 0]

Signals == {"SIGTERM", "SIGINT"}

(* setTimeout(..., 10000) *)
ShutdownTimeout == 10000

(* Signals delivered to one process. *)
MaxSignals == 2

(* A connection is open while a request on it is being handled. *)
OpenConnections == {r \in Req : calls[r].via = "http" /\ calls[r].pc = "awaitEngine"}

(* The signal handler, were no timer set. *)
shutdownWithoutTimer(signal) ==
  /\ server.state \in {"running", "closing"}
  /\ server' = [server EXCEPT !.state = "closing", !.signal = signal]
  /\ UNCHANGED <<products, esIndex, calls>>

(* shutdown(signal): server.close(callback) and the 10 second timer. A     *)
(* signal that comes while the server closes runs the handler again.       *)
shutdown(signal) ==
  /\ server.state \in {"running", "closing"}
  /\ Cardinality(server.timers) < MaxSignals
  /\ server' = [server EXCEPT !.state = "closing", !.signal = signal,
                              !.timers = @ \cup {server.elapsed + ShutdownTimeout}]
  /\ UNCHANGED <<products, esIndex, calls>>

(* The callback of server.close: the server stopped listening and its      *)
(* connections have ended. process.exit(0).                                *)
serverClosed ==
  /\ server.state = "closing"
  /\ OpenConnections = {}
  /\ server' = [server EXCEPT !.state = "exited", !.code = 0]
  /\ UNCHANGED <<products, esIndex, calls>>

(* A second passes while a timer is pending. *)
Tick ==
  /\ server.state = "closing"
  /\ \E d \in server.timers : server.elapsed < d
  /\ \A d \in server.timers : server.elapsed < d
  /\ server' = [server EXCEPT !.elapsed = @ + 1000]
  /\ UNCHANGED <<products, esIndex, calls>>

(* The callback of setTimeout: process.exit(1). *)
forcedShutdown ==
  /\ server.state = "closing"
  /\ \E d \in server.timers : server.elapsed >= d
  /\ server' = [server EXCEPT !.state = "exited", !.code = 1]
  /\ UNCHANGED <<products, esIndex, calls>>

(* A call of productService.searchProducts(query, filters) *)
searchProducts(r, query, filters) ==
  /\ calls[r].pc = "idle"
  /\ calls' = [calls EXCEPT ![r] = beginSearch([@ EXCEPT !.via = "service"], query, filters)]
  /\ UNCHANGED <<products, esIndex, server>>

(* The engine answers the search of call r. *)
EngineRespond(r) ==
  /\ calls[r].pc = "awaitEngine"
  /\ EsAccepts(esIndex, calls[r].body)
  /\ calls' = [calls EXCEPT ![r] = formatResults(@)]
  /\ UNCHANGED <<products, esIndex, server>>

(* The search of call r fails. *)
EngineFail(r, kind) ==
  /\ calls[r].pc = "awaitEngine"
  /\ calls' = [calls EXCEPT ![r] = catchAndFallback(@, kind)]
  /\ UNCHANGED <<products, esIndex, server>>

(* npm run es:init: the index is created anew with sampleProducts. *)
initializeElasticsearch ==
  /\ esIndex' = [exists |-> TRUE,
                 docs |-> [i \in 1..Len(sampleProducts) |-> IndexedDoc(sampleProducts[i])]]
  /\ UNCHANGED <<products, calls, server>>

(* ProductService.indexAllProducts, its bulk request carried out: every    *)
(* product of this.products is written to the index under its asin.        *)
indexAllProducts ==
  /\ esIndex' =
       [exists |-> TRUE,
        docs |-> SelectSeq(esIndex.docs,
                           LAMBDA doc : \A i \in 1..Len(products) : products[i].asin # doc.asin)
                 \o [i \in 1..Len(products) |-> IndexedDoc(products[i])]]
  /\ UNCHANGED <<products, calls, server>>

(* (a, b) => b.boughtInLastMonth - a.boughtInLastMonth *)
compareBought(a, b) == b.boughtInLastMonth - a.boughtInLastMonth

(* hits.hits.map(hit => hit._source) of a term query sorted on the fields  *)
(* keys, each descending, with a size                                      *)
EsTermSearch(index, field, value, keys, size) ==
  LET docs == SelectSeq(index.docs, LAMBDA doc : doc[field] = value)
      cmp(a, b) ==
        IF a[keys[1]] # b[keys[1]]
        THEN (IF keys[1] = "isBestSeller"
              THEN BoolNum(b.isBestSeller) - BoolNum(a.isBestSeller)
              ELSE b[keys[1]] - a[keys[1]])
        ELSE b[keys[2]] - a[keys[2]]
      found == SortBy(docs, [i \in 1..Len(docs), j \in 1..Len(docs) |-> cmp(docs[i], docs[j])])
  IN  SubSeq(found, 1, IF Len(found) < size THEN Len(found) ELSE size)

(* The fallback of getBestSellers, were the catalog sorted before it is    *)
(* filtered: this.products.sort(...).filter(...).slice(0, limit).          *)
bestSellersSortFirst(catalog, limit) ==
  LET sorted == SortBy(catalog, [i \in 1..Len(catalog), j \in 1..Len(catalog) |->
                                   compareBought(catalog[i], catalog[j])])
  IN  [returned |-> slice(SelectSeq(sorted, LAMBDA p : p.isBestSeller), 0, limit),
       products |-> sorted]

(* The fallback of getBestSellers: filter makes a new array, sort orders   *)
(* that array in place, slice copies its head; this.products is the array  *)
(* it was.                                                                 *)
bestSellersFallback(catalog, limit) ==
  LET filtered == SelectSeq(catalog, LAMBDA p : p.isBestSeller)
      sorted == SortBy(filtered, [i \in 1..Len(filtered), j \in 1..Len(filtered) |->
                                    compareBought(filtered[i], filtered[j])])
  IN  [returned |-> slice(sorted, 0, limit), products |-> catalog]

(* ProductService.getBestSellers(limit), the engine answering or not. *)
getBestSellers(r, limit, answered) ==
  /\ calls[r].pc = "idle"
  /\ answered => esIndex.exists
  /\ LET out == IF answered
                THEN [returned |-> EsTermSearch(esIndex, "isBestSeller", TRUE,
                                                <<"boughtInLastMonth", "stars">>, limit \div 100),
                      products |-> products]
                ELSE bestSellersFallback(products, limit)
     IN  /\ calls' = [calls EXCEPT ![r] =
                        [@ EXCEPT !.pc = "done", !.via = "getBestSellers", !.limit = Num(limit),
                                  !.outcome = IF answered THEN "hits" ELSE "reject",
                                  !.settled = "returned", !.returned = out.returned,
                                  !.log = IF answered THEN @
                                          ELSE Append(@, logEntry("error",
                                                 "Failed to fetch best sellers from ES",
                                                 [error |-> errorMessage("reject")]))]]
         /\ products' = out.products
  /\ UNCHANGED <<esIndex, server>>

(* ProductService.getProductsByCategory(category_id), the engine answering *)
(* or not; a term that is NaN the engine does not answer. The fallback     *)
(* filters this.products into a new array.                                 *)
getProductsByCategory(r, category_id, answered) ==
  /\ calls[r].pc = "idle"
  /\ answered => esIndex.exists /\ parseInt(category_id) # NaN
  /\ LET out == IF answered
                THEN [returned |-> EsTermSearch(esIndex, "category_id", parseInt(category_id),
                                                <<"isBestSeller", "stars">>, MaxResults),
                      products |-> products]
                ELSE [returned |-> SelectSeq(products, LAMBDA p :
                                      jsStrictEq(p.category_id, parseInt(category_id))),
                      products |-> products]
     IN  /\ calls' = [calls EXCEPT ![r] =
                        [@ EXCEPT !.pc = "done", !.via = "getProductsByCategory",
                                  !.filters = [NoFilters EXCEPT !.category_id = category_id],
                                  !.outcome = IF answered THEN "hits" ELSE "reject",
                                  !.settled = "returned", !.returned = out.returned,
                                  !.log = Append(@, logEntry("info", "Fetching products by category",
                                                 [category_id |-> category_id]))
                                          \o (IF answered THEN <<>>
                                              ELSE <<logEntry("error",
                                                 "Failed to fetch products by category from ES",
                                                 [error |-> errorMessage("reject"),
                                                  category_id |-> category_id])>>)]]
         /\ products' = out.products
  /\ UNCHANGED <<esIndex, server>>

(* ProductService.indexProduct, its index request carried out: the         *)
(* document is written under product.asin, in place of the one that has    *)
(* this id. The numeric fields of product are numbers already.             *)
indexProduct(product) ==
  /\ esIndex.exists
  /\ esIndex' =
       [esIndex EXCEPT !.docs =
          IF \E i \in 1..Len(@) : @[i].asin = product.asin
          THEN [i \in 1..Len(@) |->
                  IF @[i].asin = product.asin
                  THEN [IndexedDoc(product) EXCEPT !.isBestSeller = (product.isBestSeller = TRUE)]
                  ELSE @[i]]
          ELSE Append(@, [IndexedDoc(product) EXCEPT
                            !.isBestSeller = (product.isBestSeller = TRUE)])]
  /\ UNCHANGED <<products, calls, server>>

---------------------------------------------------------------------------
(* Inputs *)

S_luggage == <<"l","u","g","g","a","g","e">>
S_LUGGAGE == <<"L","U","G","G","A","G","E">>
S_lugage == <<"l","u","g","a","g","e">>
S_b08n == <<"b","0","8","n">>
S_spinner_earbuds == <<"s","p","i","n","n","e","r"," ","e","a","r","b","u","d","s">>
S_zzz == <<"z","z","z">>

(* What req.query holds for a parameter that is absent, given once, or     *)
(* given twice (?query=a&query=b).                                         *)
QueryValues ==
  {Undefined, Str(<<>>), Str(<<" ">>), Str(S_luggage), Str(S_LUGGAGE), Str(S_lugage),
   Str(S_b08n), Str(S_spinner_earbuds), Str(S_zzz), Obj(<<"a",",","b">>)}

HttpQueryValues ==
  {Undefined, Str(<<>>), Str(<<" ">>), Str(S_luggage), Str(S_zzz), Obj(<<"a",",","b">>)}

CategoryValues == {Undefined, Str(<<"1","0","4">>), Str(<<"a","b","c">>)}

MinPriceValues == {Undefined, Str(<<"1","2","0">>), Str(<<"a","b","c">>)}

MaxPriceValues == {Undefined, Str(<<"0">>), Str(<<"1","3","0">>)}

MinStarsValues == {Undefined, Str(<<"4",".","6">>)}

BestSellerValues ==
  {Undefined, Str(<<"t","r","u","e">>), Str(<<"f","a","l","s","e">>), Bool(TRUE), Bool(FALSE)}

PageValues == {Undefined, Str(<<"1">>), Str(<<"2">>), Str(<<"0">>), Str(<<"1",".","5">>)}

LimitValues ==
  {Undefined, Str(<<"1">>), Str(<<"2">>), Str(<<"0">>), Str(<<"-","1">>),
   Str(<<"1",".","5">>), Str(<<"a","b","c">>)}

(* req.query of GET /api/search *)
HttpQueries ==
  [query : HttpQueryValues, category : {Undefined, Str(<<"1","0","4">>)},
   minPrice : {Undefined, Str(<<"1","2","0">>)}, maxPrice : {Undefined, Str(<<"1","3","0">>)},
   category_id : {Undefined}, minStars : {Undefined}, isBestSeller : {Undefined},
   page : PageValues, limit : LimitValues]

(* The filters of a direct call of searchProducts *)
FilterSets ==
  [category : {Undefined}, category_id : CategoryValues, minPrice : MinPriceValues,
   maxPrice : MaxPriceValues, minStars : MinStarsValues, isBestSeller : BestSellerValues]

ServiceQueries == QueryValues \ {Obj(<<"a",",","b">>)}

(* The few inputs of the runs with several invocations in flight. *)
FewHttpQueries ==
  [query : {Undefined, Str(S_luggage), Obj(<<"a",",","b">>)}, category : {Undefined},
   minPrice : {Undefined}, maxPrice : {Undefined},
   category_id : {Undefined}, minStars : {Undefined}, isBestSeller : {Undefined},
   page : {Undefined}, limit : {Undefined}]

FewFilterSets ==
  [category : {Undefined}, category_id : {Undefined}, minPrice : {Undefined},
   maxPrice : {Undefined}, minStars : {Undefined},
   isBestSeller : {Undefined, Str(<<"t","r","u","e">>)}]

---------------------------------------------------------------------------
(* Specifications *)

Init ==
  /\ products = SeedProducts
  /\ esIndex = [exists |-> FALSE, docs |-> <<>>]
  /\ calls = [r \in Req |-> IdleCall]
  /\ server = Listening

(* Several invocations in flight, few inputs. *)
Next ==
  \/ \E r \in Req, q \in FewHttpQueries : search(r, q)
  \/ \E r \in Req, f \in FewFilterSets : searchProducts(r, Str(S_luggage), f)
  \/ \E r \in Req : EngineRespond(r)
  \/ \E r \in Req, kind \in FailureKinds : EngineFail(r, kind)
  \/ initializeElasticsearch

Spec == Init /\ [][Next]_vars

(* One invocation, all inputs. *)
NextInputs ==
  \/ \E q \in HttpQueries : search(1, q)
  \/ \E query \in ServiceQueries, f \in FilterSets : searchProducts(1, query, f)
  \/ EngineRespond(1)
  \/ \E kind \in FailureKinds : EngineFail(1, kind)
  \/ initializeElasticsearch

SpecInputs == Init /\ [][NextInputs]_vars

(* req.query of GET /api/search requests that name filters: the ones the   *)
(* handler reads and category_id, minStars, isBestSeller.                  *)
HttpFilterQueries ==
  [query : {Str(S_luggage)}, category : {Undefined, Str(<<"1","0","4">>)},
   minPrice : {Undefined, Str(<<"1","2","0">>)}, maxPrice : {Undefined, Str(<<"1","3","0">>)},
   category_id : {Undefined, Str(<<"1","0","4">>), Str(<<"2","0","1">>)},
   minStars : {Undefined, Str(<<"4",".","6">>)},
   isBestSeller : {Undefined, Str(<<"t","r","u","e">>), Str(<<"f","a","l","s","e">>)},
   page : {Undefined}, limit : {Undefined}]

(* One request, all filter parameters. *)
NextFilters ==
  \/ \E q \in HttpFilterQueries : search(1, q)
  \/ EngineRespond(1)
  \/ \E kind \in FailureKinds : EngineFail(1, kind)
  \/ initializeElasticsearch

SpecFilters == Init /\ [][NextFilters]_vars

(* One invocation of the service, the index loaded by either loader. *)
NextIndex ==
  \/ \E query \in ServiceQueries, f \in FewFilterSets : searchProducts(1, query, f)
  \/ EngineRespond(1)
  \/ \E kind \in FailureKinds : EngineFail(1, kind)
  \/ initializeElasticsearch
  \/ indexAllProducts

SpecIndex == Init /\ [][NextIndex]_vars

(* The request paths, by segment: the routes, their neighbours, and paths  *)
(* no route is written for.                                                *)
Paths ==
  {<<<<"h","e","a","l","t","h">>>>,
   <<<<"a","p","i">>, <<"s","e","a","r","c","h">>>>,
   <<<<"A","P","I">>, <<"S","e","a","r","c","h">>>>,
   <<<<"a","p","i">>, <<"c","a","t","e","g","o","r","i","e","s">>>>,
   <<<<"a","p","i">>, <<"c","a","t","e","g","o","r","i","e","s">>, <<"1">>>>,
   <<<<"a","p","i","-","d","o","c","s">>>>,
   <<<<"a","p","i">>, <<"p","r","o","d","u","c","t","s">>, <<"B","0","1","4","T","M","V","5","Y","E">>>>,
   <<<<"a","p","i">>, <<"p","r","o","d","u","c","t","s">>, <<"b","0","1","4","t","m","v","5","y","e">>>>,
   <<<<"a","p","i">>, <<"p","r","o","d","u","c","t","s">>, <<"I","N","V","A","L","I","D","_","A","S","I","N">>>>,
   <<<<"a","p","i">>, <<"p","r","o","d","u","c","t","s">>, <<"s","e","a","r","c","h">>>>,
   <<<<"a","p","i">>, <<"p","r","o","d","u","c","t","s">>>>,
   <<<<"a","p","i">>, <<"p","r","o","d","u","c","t","s">>, <<"B","0","1","4","T","M","V","5","Y","E">>, <<"r","e","v","i","e","w","s">>>>,
   <<<<"a","p","i">>, <<"B","0","8","N","5","W","R","W","N","W">>>>,
   <<<<"a","p","i">>, <<"u","n","k","n","o","w","n","-","e","n","d","p","o","i","n","t">>>>,
   <<<<"a","p","i">>>>,
   <<<<"u","n","k","n","o","w","n">>>>,
   <<>>}

Methods == {"GET", "POST"}

RouteQueries == {NoQuery, [NoQuery EXCEPT !.query = Str(S_luggage)]}

(* One request, every path and method. *)
NextRoutes ==
  \/ \E method \in Methods, path \in Paths, q \in RouteQueries : request(1, method, path, q)
  \/ EngineRespond(1)
  \/ \E kind \in FailureKinds : EngineFail(1, kind)
  \/ initializeElasticsearch

SpecRoutes == Init /\ [][NextRoutes]_vars

(* The evaluator over a catalog that is an input: products that differ in  *)
(* the sort keys, or tie in them.                                          *)
CatalogProduct(i, keys) ==
  [asin |-> <<"P", DigitChars[i + 1]>>, title |-> <<"B","a","g">>,
   imgUrl |-> "", productURL |-> "",
   stars |-> keys[2], reviews |-> 0, price |-> 1000 * i, listPrice |-> 0,
   category_id |-> 10400, isBestSeller |-> keys[1], boughtInLastMonth |-> keys[3]]

SortKeys == BOOLEAN \X {400, 450} \X {100000, 200000}

Catalogs ==
  UNION {{[i \in 1..n |-> CatalogProduct(i, k[i])] : k \in [1..n -> SortKeys]} : n \in 0..MaxCatalog}

CatalogFilterSets ==
  [category : {Undefined}, category_id : {Undefined}, minPrice : {Undefined},
   maxPrice : {Undefined}, minStars : {Undefined, Str(<<"4",".","5">>)},
   isBestSeller : {Undefined, Str(<<"t","r","u","e">>)}]

InitCatalog ==
  /\ products \in Catalogs
  /\ esIndex = [exists |-> FALSE, docs |-> <<>>]
  /\ calls = [r \in Req |-> IdleCall]
  /\ server = Listening

NextCatalog ==
  \/ \E f \in CatalogFilterSets : searchProducts(1, Str(<<"b","a","g">>), f)
  \/ \E kind \in FailureKinds : EngineFail(1, kind)

SpecCatalog == InitCatalog /\ [][NextCatalog]_vars

(* An index that holds more documents than one search asks for: the       *)
(* products of a bulk load, numbered, bags but for every seventh.          *)
MaxIndex == 102

BulkProduct(i) ==
  [asin |-> <<"K", DigitChars[((i \div 100) % 10) + 1], DigitChars[((i \div 10) % 10) + 1],
              DigitChars[(i % 10) + 1]>>,
   title |-> IF i % 7 = 0 THEN <<"B","o","x">> ELSE <<"B","a","g">>,
   imgUrl |-> "", productURL |-> "",
   stars |-> 300 + 10 * (i % 20), reviews |-> 0, price |-> 1000 + 100 * i, listPrice |-> 0,
   category_id |-> 10400, isBestSeller |-> (i % 5 = 0), boughtInLastMonth |-> 100 * i]

InitWindow ==
  /\ products = SeedProducts
  /\ esIndex = [exists |-> TRUE,
                docs |-> [i \in 1..(MaxResults - 2) |-> IndexedDoc(BulkProduct(i))]]
  /\ calls = [r \in Req |-> IdleCall]
  /\ server = Listening

(* One invocation of the service while the index grows past the window. *)
NextWindow ==
  \/ \E query \in {Undefined, Str(<<"b","a","g">>), Str(<<"b","o","x">>)}, f \in FewFilterSets :
        searchProducts(1, query, f)
  \/ EngineRespond(1)
  \/ \E kind \in FailureKinds : EngineFail(1, kind)
  \/ \E i \in {1, Len(esIndex.docs) + 1} :
        Len(esIndex.docs) < MaxIndex /\ indexProduct(BulkProduct(i))

SpecWindow == InitWindow /\ [][NextWindow]_vars

(* The operations of the service, in any order, in the slots. *)
NextService ==
  \/ \E r \in Req, query \in {Undefined, Str(S_luggage)}, f \in FewFilterSets :
        searchProducts(r, query, f)
  \/ \E r \in Req : EngineRespond(r)
  \/ \E r \in Req, kind \in FailureKinds : EngineFail(r, kind)
  \/ \E r \in Req, path \in {p \in Paths : Len(p) = 3 /\ p[2] = P_products} :
        request(r, "GET", path, NoQuery)
  \/ \E r \in Req, limit \in {0, 100, 200, 1000}, answered \in BOOLEAN :
        getBestSellers(r, limit, answered)
  \/ \E r \in Req, id \in CategoryValues \ {Undefined}, answered \in BOOLEAN :
        getProductsByCategory(r, id, answered)
  \/ initializeElasticsearch

SpecService == Init /\ [][NextService]_vars

(* The server process: requests while it listens, their engine calls       *)
(* resumed while it lives, signals, and the shutdown.                      *)
NextShutdown ==
  \/ \E q \in FewHttpQueries : server.state = "running" /\ search(1, q)
  \/ server.state # "exited" /\ EngineRespond(1)
  \/ \E kind \in FailureKinds : server.state # "exited" /\ EngineFail(1, kind)
  \/ initializeElasticsearch
  \/ \E signal \in Signals : shutdown(signal)
  \/ serverClosed
  \/ Tick
  \/ forcedShutdown

(* Time passes and the event loop runs a timer that is due; nothing makes  *)
(* the engine answer or a connection end.                                  *)
SpecShutdown ==
  Init /\ [][NextShutdown]_vars /\ WF_vars(Tick) /\ WF_vars(forcedShutdown)

---------------------------------------------------------------------------
(* Properties *)

Failed(c) == c.outcome \in FailureKinds

(* C1: whenever the engine call of a searchProducts invocation has failed  *)
(* (rejected, timed out, or resolved without hits.hits), searchProducts    *)
(* has not rejected and has returned what _fallbackSearch(query, filters)  *)
(* computes over the catalog.                                              *)
C1_FailureReturnsFallback ==
  \A r \in Req :
    Failed(calls[r]) =>
      /\ calls[r].settled = "returned"
      /\ calls[r].returned = _fallbackSearch(products, calls[r].query, calls[r].filters)

(* C2: a GET /api/search request with a non-empty query parameter is       *)
(* answered 200 with a results list, whatever the engine did and whatever  *)
(* the other parameters are.                                               *)
C2_EngineFailureNeverSurfaced ==
  \A r \in Req :
    (calls[r].via = "http" /\ calls[r].pc = "done" /\ Truthy(calls[r].query)) =>
      /\ calls[r].res.status = 200
      /\ "results" \in DOMAIN calls[r].res.body

SuppliedNumber(v) == v # Undefined /\ parseFloat(v) # NaN

SuppliedFlag(v) == v \in {Str(<<"t","r","u","e">>), Bool(TRUE)}

SatisfiesFilters(p, f) ==
  /\ (f.category_id # Undefined /\ f.category_id # Str(<<>>)) =>
       (parseInt(f.category_id) # NaN /\ p.category_id = parseInt(f.category_id))
  /\ SuppliedNumber(f.minPrice) => p.price >= parseFloat(f.minPrice)
  /\ SuppliedNumber(f.maxPrice) => p.price <= parseFloat(f.maxPrice)
  /\ SuppliedNumber(f.minStars) => p.stars >= parseFloat(f.minStars)
  /\ f.isBestSeller # Undefined => p.isBestSeller = SuppliedFlag(f.isBestSeller)

(* C4: every product searchProducts returns satisfies every filter that    *)
(* was supplied: category_id equal, price within minPrice and maxPrice,    *)
(* stars at least minStars, isBestSeller equal to the flag; a filter that  *)
(* is absent constrains nothing.                                           *)
C4_ResultsSatisfyFilters ==
  \A r \in Req :
    calls[r].settled = "returned" =>
      \A i \in 1..Len(calls[r].returned) :
        SatisfiesFilters(calls[r].returned[i], calls[r].filters)

(* Both paths returned products under a price ceiling and a flag that      *)
(* leave some matching product out.                                        *)
C4_Witness ==
  \E r \in Req :
    /\ calls[r].settled = "returned" /\ calls[r].outcome = "hits"
    /\ SuppliedNumber(calls[r].filters.maxPrice) /\ calls[r].filters.isBestSeller # Undefined
    /\ Len(calls[r].returned) > 0
    /\ Len(_fallbackSearch(products, calls[r].query, calls[r].filters)) > 0
    /\ Len(_fallbackSearch(products, calls[r].query, calls[r].filters))
         < Len(_fallbackSearch(products, calls[r].query, NoFilters))

ContainsQuery(p, query) ==
  \/ includes(toLowerCase(p.title), toLowerCase(query.s))
  \/ includes(toLowerCase(p.asin), toLowerCase(query.s))

(* C5 as stated: every product a search for q returns has the lower-cased  *)
(* q inside its lower-cased title or asin.                                 *)
C5_ResultsContainQuery ==
  \A r \in Req :
    (calls[r].settled = "returned" /\ calls[r].query.t = "string") =>
      \A i \in 1..Len(calls[r].returned) : ContainsQuery(calls[r].returned[i], calls[r].query)

(* C5 as amended: every product the in-memory fallback returns for q has   *)
(* the lower-cased q inside its lower-cased title or asin.                 *)
C5_FallbackResultsContainQuery ==
  \A r \in Req :
    (calls[r].settled = "returned" /\ Failed(calls[r]) /\ calls[r].query.t = "string") =>
      \A i \in 1..Len(calls[r].returned) : ContainsQuery(calls[r].returned[i], calls[r].query)

(* The fallback answered an upper-case query with some, not all, products. *)
C5_Witness ==
  \E r \in Req :
    /\ calls[r].settled = "returned" /\ Failed(calls[r])
    /\ calls[r].query = Str(S_LUGGAGE)
    /\ Len(calls[r].returned) > 0 /\ Len(calls[r].returned) < Len(products)

InOrder(a, b) ==
  /\ BoolNum(a.isBestSeller) >= BoolNum(b.isBestSeller)
  /\ a.isBestSeller = b.isBestSeller =>
       /\ a.stars >= b.stars
       /\ a.stars = b.stars => a.boughtInLastMonth >= b.boughtInLastMonth

(* C6: the in-memory evaluator returns its products by best-seller flag    *)
(* descending, then stars descending, then boughtInLastMonth descending.   *)
C6_FallbackOrdered ==
  \A r \in Req :
    (calls[r].settled = "returned" /\ Failed(calls[r])) =>
      \A i \in 1..(Len(calls[r].returned) - 1) :
        InOrder(calls[r].returned[i], calls[r].returned[i + 1])

(* Three products came back, two of them told apart by popularity alone    *)
(* and stored in the catalog the other way round.                          *)
C6_Witness ==
  \E r \in Req :
    /\ calls[r].settled = "returned" /\ Failed(calls[r])
    /\ Len(calls[r].returned) = 3
    /\ \E i \in 1..2 :
         LET a == calls[r].returned[i]
             b == calls[r].returned[i + 1]
         IN  /\ a.isBestSeller = b.isBestSeller /\ a.stars = b.stars
             /\ a.boughtInLastMonth > b.boughtInLastMonth
             /\ a.price > b.price

Answered(c) == c.via = "http" /\ c.pc = "done" /\ c.res.status = 200

(* (page - 1) * limit *)
Offset(c) == jsMul(jsSub(ToNumber(c.page), 100), ToNumber(c.limit))

(* C8: the results list of a GET /api/search response holds at most limit  *)
(* products.                                                               *)
C8_ResultsAtMostLimit ==
  \A r \in Req :
    (Answered(calls[r]) /\ ToNumber(calls[r].limit) # NaN) =>
      Len(calls[r].res.body.results) * 100 <= ToNumber(calls[r].limit)

(* C9: a request whose offset (page - 1) * limit is at or past the match   *)
(* count is answered 200 with no results and with total the match count.   *)
C9_PageBeyondLastIsEmpty ==
  \A r \in Req :
    (/\ calls[r].via = "http" /\ calls[r].settled = "returned"
     /\ Offset(calls[r]) # NaN /\ Offset(calls[r]) >= Len(calls[r].returned) * 100) =>
      /\ calls[r].res.status = 200
      /\ calls[r].res.body.results = <<>>
      /\ calls[r].res.body.pagination.total = Len(calls[r].returned) * 100

(* Page 2 of two matches, two to the page. *)
C9_Witness ==
  \E r \in Req :
    /\ Answered(calls[r]) /\ Len(calls[r].returned) = 2
    /\ Offset(calls[r]) = 200
    /\ calls[r].res.body.results = <<>>

(* The elements of seq at the 0-based indexes from start up to, not        *)
(* including, start + size.                                                *)
Window(seq, start, size) ==
  LET idx == {i \in 1..Len(seq) : start <= (i - 1) * 100 /\ (i - 1) * 100 < start + size}
      lo == CHOOSE i \in idx : \A j \in idx : i <= j
      hi == CHOOSE i \in idx : \A j \in idx : i >= j
  IN  IF idx = {} THEN <<>> ELSE SubSeq(seq, lo, hi)

(* A whole number. *)
IsIntegral(n) == n # NaN /\ n % 100 = 0

(* C10: for whole page and limit (absent: 1 and 10), the results list is   *)
(* the window of the sequence the service returned from index              *)
(* (page - 1) * limit up to, not including, (page - 1) * limit + limit.    *)
C10_ResultsAreWindow ==
  \A r \in Req :
    (/\ Answered(calls[r])
     /\ IsIntegral(ToNumber(calls[r].page)) /\ IsIntegral(ToNumber(calls[r].limit))) =>
      calls[r].res.body.results
        = Window(calls[r].returned, Offset(calls[r]), ToNumber(calls[r].limit))

(* k is the least whole number that is at least a / b (b not 0). *)
IsCeilOf(k, a, b) ==
  /\ IsIntegral(k)
  /\ IF b > 0 THEN k * b >= 100 * a /\ (k - 100) * b < 100 * a
     ELSE k * b <= 100 * a /\ (k - 100) * b > 100 * a

ServiceInvoked(c) ==
  \E i \in 1..Len(c.log) : c.log[i].message = "Product search initiated with Elasticsearch"

(* C12: a GET /api/search request whose query parameter is missing or      *)
(* empty is answered 400 with an error field in the body, and for it       *)
(* searchProducts is not entered, the engine is not called and the         *)
(* in-memory evaluator does not run.                                       *)
C12_MissingQueryRejected ==
  \A r \in Req :
    (calls[r].via = "http" /\ calls[r].query \in {Undefined, Str(<<>>)}) =>
      /\ calls[r].pc = "done"
      /\ calls[r].res.status = 400
      /\ "error" \in DOMAIN calls[r].res.body
      /\ ~ServiceInvoked(calls[r])
      /\ calls[r].searchCalls = 0
      /\ calls[r].fallbackRuns = 0

(* A request with query= (the empty string) was answered. *)
C12_Witness ==
  \E r \in Req :
    /\ calls[r].via = "http" /\ calls[r].query = Str(<<>>)
    /\ calls[r].res.status = 400
    /\ calls[r].res.body.error = "Query parameter is required"

(* C13: the search service is never entered through GET /api/search with   *)
(* a query that is only whitespace.                                        *)
C13_WhitespaceQueryNotSearched ==
  \A r \in Req :
    (/\ calls[r].via = "http" /\ calls[r].query.t = "string"
     /\ TrimEnd(TrimStart(calls[r].query.s)) = <<>>) =>
      ~ServiceInvoked(calls[r]) /\ calls[r].searchCalls = 0

(* C14: every product in the results of a 200 response to GET /api/search  *)
(* has price >= the request's minPrice and price <= the request's          *)
(* maxPrice, for each of the two the request supplies.                     *)
C14_HttpPriceWithinBounds ==
  \A r \in Req :
    Answered(calls[r]) =>
      \A i \in 1..Len(calls[r].res.body.results) :
        LET p == calls[r].res.body.results[i]
        IN  /\ SuppliedNumber(calls[r].req.minPrice) => p.price >= parseFloat(calls[r].req.minPrice)
            /\ SuppliedNumber(calls[r].req.maxPrice) => p.price <= parseFloat(calls[r].req.maxPrice)

(* A floor of 120 left one of the luggage in the results and took the      *)
(* other out.                                                              *)
C14_Witness ==
  \E r \in Req :
    /\ Answered(calls[r]) /\ Failed(calls[r])
    /\ calls[r].req.minPrice = Str(<<"1","2","0">>) /\ calls[r].req.maxPrice = Undefined
    /\ Len(calls[r].res.body.results) = 1
    /\ calls[r].res.body.results[1].price = 13999
    /\ Len(_fallbackSearch(products, calls[r].query, NoFilters)) = 2

(* C15: every product in the results of a 200 response to GET /api/search  *)
(* satisfies each of category_id, minStars and isBestSeller that the       *)
(* request supplies.                                                       *)
C15_HttpFiltersApplied ==
  \A r \in Req :
    Answered(calls[r]) =>
      \A i \in 1..Len(calls[r].res.body.results) :
        LET p == calls[r].res.body.results[i]
            q == calls[r].req
        IN  /\ SuppliedNumber(q.category_id) => p.category_id = parseInt(q.category_id)
            /\ SuppliedNumber(q.minStars) => p.stars >= parseFloat(q.minStars)
            /\ q.isBestSeller # Undefined => p.isBestSeller = SuppliedFlag(q.isBestSeller)

(* A GET request for /api/products/<one segment>. *)
IsProductPath(c) ==
  /\ c.method = "GET" /\ Len(c.path) = 3
  /\ SegIs(c.path[1], P_api) /\ SegIs(c.path[2], P_products)

(* C16: GET /api/products/:id is answered 200 with the stored product      *)
(* whose asin equals :id when there is one, and otherwise 404 with the     *)
(* body {error: 'Product not found'}.                                      *)
C16_ProductByIdFoundOrNotFound ==
  \A r \in Req :
    IsProductPath(calls[r]) =>
      /\ calls[r].pc = "done"
      /\ IF \E i \in 1..Len(products) : products[i].asin = calls[r].path[3]
         THEN /\ calls[r].res.status = 200
              /\ \E i \in 1..Len(products) :
                   products[i].asin = calls[r].path[3] /\ calls[r].res.body = products[i]
         ELSE /\ calls[r].res.status = 404
              /\ calls[r].res.body = [error |-> ProductNotFound]

(* One of the listed routes: /health, /api/search,                *)
(* /api/products/:id, /api/categories (GET), and what lies under /api-docs. *)
ListedRoute(method, path) ==
  \/ Mounted(path, <<P_api_docs>>)
  \/ /\ method = "GET"
     /\ \/ Len(path) = 1 /\ SegIs(path[1], P_health)
        \/ Len(path) = 2 /\ SegIs(path[1], P_api) /\ SegIs(path[2], P_search)
        \/ Len(path) = 2 /\ SegIs(path[1], P_api) /\ SegIs(path[2], P_categories)
        \/ Len(path) = 3 /\ SegIs(path[1], P_api) /\ SegIs(path[2], P_products)

(* C17: a request whose method and path match none of the listed routes is *)
(* answered 404 with a body whose error field contains 'not found'.        *)
C17_UnmatchedRoutesNotFound ==
  \A r \in Req :
    (calls[r].method # "" /\ ~ListedRoute(calls[r].method, calls[r].path)) =>
      /\ calls[r].pc = "done"
      /\ calls[r].res.status = 404
      /\ "error" \in DOMAIN calls[r].res.body
      /\ includes(calls[r].res.body.error, <<"n","o","t"," ","f","o","u","n","d">>)

(* The fields of a stored product. *)
ProductFields == DOMAIN SionLuggage

(* C18: a record searchProducts returns has the fields of a stored         *)
(* product, and on the engine path at most the one further field _score.   *)
C18_SameShapeButScore ==
  \A r \in Req :
    calls[r].settled = "returned" =>
      \A i \in 1..Len(calls[r].returned) :
        /\ ProductFields \subseteq DOMAIN calls[r].returned[i]
        /\ DOMAIN calls[r].returned[i] \subseteq ProductFields \cup {"_score"}
        /\ Failed(calls[r]) => DOMAIN calls[r].returned[i] = ProductFields

(* C19: once searchProducts has taken the fallback path, its log holds an  *)
(* error entry of the failure that carries the query, the filter set and   *)
(* the engine's error message.                                             *)
C19_FailureLoggedWithContext ==
  \A r \in Req :
    Failed(calls[r]) =>
      \E i \in 1..Len(calls[r].log) :
        /\ calls[r].log[i].level = "error"
        /\ calls[r].log[i].message
             = "Elasticsearch search failed, falling back to in-memory search"
        /\ {"query", "filters", "error"} \subseteq DOMAIN calls[r].log[i].meta
        /\ calls[r].log[i].meta.query = calls[r].query
        /\ calls[r].log[i].meta.filters = calls[r].filters
        /\ calls[r].log[i].meta.error = errorMessage(calls[r].outcome)

(* A filter value was given: it is there and is not the empty string. *)
Supplied(v) == v # Undefined /\ v # Str(<<>>)

(* The clauses of a filter list of one kind on one field. *)
ClausesOn(filter, kind, field) ==
  {i \in 1..Len(filter) : filter[i].kind = kind /\ filter[i].field = field}

(* C20: the filter list of the engine query holds a term clause on         *)
(* category_id exactly when category_id is supplied; one range clause on   *)
(* price exactly when minPrice or maxPrice is, with gte from minPrice and  *)
(* lte from maxPrice, each exactly when supplied; a range clause on stars  *)
(* with gte from minStars exactly when minStars is; a term clause on       *)
(* isBestSeller exactly when the flag is supplied, true exactly for true   *)
(* and 'true'; and no other clause.                                        *)
C20_FilterClausesBuilt ==
  \A r \in Req :
    calls[r].searchCalls > 0 =>
      LET f == calls[r].filters
          filter == calls[r].body.query.filter
          cat == ClausesOn(filter, "term", "category_id")
          price == ClausesOn(filter, "range", "price")
          stars == ClausesOn(filter, "range", "stars")
          best == ClausesOn(filter, "term", "isBestSeller")
      IN  /\ Cardinality(cat) = (IF Supplied(f.category_id) THEN 1 ELSE 0)
          /\ \A i \in cat : filter[i].value = parseInt(f.category_id)
          /\ Cardinality(price)
               = (IF Supplied(f.minPrice) \/ Supplied(f.maxPrice) THEN 1 ELSE 0)
          /\ \A i \in price :
               /\ DOMAIN filter[i].range
                    = (IF Supplied(f.minPrice) THEN {"gte"} ELSE {})
                      \cup (IF Supplied(f.maxPrice) THEN {"lte"} ELSE {})
               /\ Supplied(f.minPrice) => filter[i].range.gte = parseFloat(f.minPrice)
               /\ Supplied(f.maxPrice) => filter[i].range.lte = parseFloat(f.maxPrice)
          /\ Cardinality(stars) = (IF Supplied(f.minStars) THEN 1 ELSE 0)
          /\ \A i \in stars :
               /\ DOMAIN filter[i].range = {"gte"}
               /\ filter[i].range.gte = parseFloat(f.minStars)
          /\ Cardinality(best) = (IF f.isBestSeller # Undefined THEN 1 ELSE 0)
          /\ \A i \in best :
               filter[i].value = (f.isBestSeller \in {Bool(TRUE), Str(<<"t","r","u","e">>)})
          /\ Len(filter)
               = Cardinality(cat) + Cardinality(price) + Cardinality(stars) + Cardinality(best)
          /\ "filter" \in DOMAIN calls[r].body.query

(* A query was built with all four clauses, the flag given as 'false'. *)
C20_Witness ==
  \E r \in Req :
    /\ calls[r].searchCalls > 0
    /\ Len(calls[r].body.query.filter) = 4
    /\ calls[r].filters.isBestSeller = Str(<<"f","a","l","s","e">>)
    /\ \E i \in 1..4 :
         /\ calls[r].body.query.filter[i].kind = "term"
         /\ calls[r].body.query.filter[i].field = "isBestSeller"
         /\ calls[r].body.query.filter[i].value = FALSE
    /\ \E i \in 1..4 :
         /\ calls[r].body.query.filter[i].kind = "range"
         /\ calls[r].body.query.filter[i].field = "price"
         /\ DOMAIN calls[r].body.query.filter[i].range = {"gte", "lte"}

(* C21: the must list of the engine query is one clause: a multi_match on  *)
(* title^2 and asin with fuzziness AUTO and operator or, carrying the      *)
(* query, when the query is non-empty, and match_all when it is missing or *)
(* empty.                                                                  *)
C21_TextClause ==
  \A r \in Req :
    calls[r].searchCalls > 0 =>
      LET must == calls[r].body.query.must
      IN  /\ Len(must) = 1
          /\ IF calls[r].query \in {Undefined, Str(<<>>)}
             THEN must[1] = [kind |-> "match_all"]
             ELSE /\ must[1].kind = "multi_match"
                  /\ must[1].query = calls[r].query
                  /\ must[1].fields = <<"title^2", "asin">>
                  /\ must[1].fuzziness = "AUTO"
                  /\ must[1].operator = "or"

(* The service was called with the empty query and built match_all. *)
C21_Witness ==
  \E r \in Req :
    /\ calls[r].via = "service" /\ calls[r].searchCalls > 0
    /\ calls[r].query = Str(<<>>)
    /\ calls[r].body.query.must = <<[kind |-> "match_all"]>>

(* C22: every search request searchProducts issues carries the sort        *)
(* _score, isBestSeller, stars, boughtInLastMonth, each descending, and    *)
(* the size 100, whatever the query and filters; results the engine        *)
(* served are never more than 100.                                         *)
C22_FixedSortAndWindow ==
  \A r \in Req :
    /\ calls[r].searchCalls > 0 =>
         /\ calls[r].body.sort =
              <<[field |-> "_score", order |-> "desc"],
                [field |-> "isBestSeller", order |-> "desc"],
                [field |-> "stars", order |-> "desc"],
                [field |-> "boughtInLastMonth", order |-> "desc"]>>
         /\ calls[r].body.size = 100
    /\ calls[r].outcome = "hits" => Len(calls[r].returned) <= 100

(* The engine served a request that more than 100 documents match, and     *)
(* 100 came back.                                                          *)
C22_Witness ==
  \E r \in Req :
    /\ calls[r].outcome = "hits"
    /\ Len(calls[r].returned) = 100
    /\ Cardinality({i \in 1..Len(esIndex.docs) :
                      EsMatches(esIndex.docs[i], calls[r].body.query)}) > 100

(* C23: after any sequence of search, product-lookup, category and         *)
(* best-seller operations, on the engine path or the fallback path, the    *)
(* catalog holds the products it held right after construction, with the   *)
(* same field values, in the same order.                                   *)
C23_CatalogUnchanged == products = SeedProducts

(* The fallback of getBestSellers has sorted best sellers into an order    *)
(* that is not the catalog's, and the fallback of a search has run.        *)
C23_Witness ==
  /\ \E r \in Req :
       /\ calls[r].via = "getBestSellers" /\ calls[r].outcome = "reject"
       /\ Len(calls[r].returned) = 2
       /\ calls[r].returned # SelectSeq(products, LAMBDA p : p.isBestSeller)
  /\ \E r \in Req : calls[r].via = "service" /\ calls[r].fallbackRuns > 0

(* The invocation c run with no other in flight, up to where c is: its     *)
(* start from its own inputs, then the engine outcome c met.               *)
Alone(c) ==
  LET start == IF c.via = "http" THEN searchRequest(IdleCall, c.req)
               ELSE beginSearch([IdleCall EXCEPT !.via = "service"], c.query, c.filters)
  IN  IF start.pc = "done" \/ c.pc = "awaitEngine" THEN start
      ELSE IF c.outcome = "hits" THEN formatResults(start)
      ELSE catchAndFallback(start, c.outcome)

(* C24: however the search requests in flight interleave, each one's       *)
(* response, results, query, filters and log lines are those of the same   *)
(* request run alone with the same engine outcome.                         *)
C24_RequestsIndependent ==
  \A r \in Req : calls[r].pc # "idle" => calls[r] = Alone(calls[r])

(* One request has been resumed with a failure and answered while another, *)
(* with other inputs, is still suspended at its engine call.               *)
C24_Witness ==
  \E r1, r2 \in Req :
    /\ r1 # r2
    /\ calls[r1].pc = "awaitEngine"
    /\ calls[r2].pc = "done" /\ Failed(calls[r2]) /\ calls[r2].settled = "returned"
    /\ calls[r2].returned # <<>>
    /\ <<calls[r1].query, calls[r1].filters>> # <<calls[r2].query, calls[r2].filters>>

C26_ExitsAfterSignal ==
  /\ (server.signal \in Signals) ~> (server.state = "exited")
  /\ [](server.state = "exited" =>
          /\ server.signal \in Signals
          /\ \/ server.code = 0 /\ OpenConnections = {}
             \/ server.code = 1 /\ server.elapsed = ShutdownTimeout)

(* The timer forced the exit while a request was still waiting for the     *)
(* engine.                                                                 *)
C26_Witness ==
  /\ server.state = "exited" /\ server.code = 1
  /\ server.elapsed = ShutdownTimeout
  /\ OpenConnections # {}

(* A product matches: its title or asin contains the lower-cased query,    *)
(* when there is one, and it satisfies each filter that was supplied. A    *)
(* bound that is no number is satisfied by no product.                     *)
Matching(p, query, f) ==
  /\ query \notin {Undefined, Str(<<>>)} => ContainsQuery(p, query)
  /\ f.category_id \notin {Undefined, Str(<<>>)} =>
       (parseInt(f.category_id) # NaN /\ p.category_id = parseInt(f.category_id))
  /\ f.minPrice \notin {Undefined, Str(<<>>)} =>
       (parseFloat(f.minPrice) # NaN /\ p.price >= parseFloat(f.minPrice))
  /\ f.maxPrice \notin {Undefined, Str(<<>>)} =>
       (parseFloat(f.maxPrice) # NaN /\ p.price <= parseFloat(f.maxPrice))
  /\ f.minStars \notin {Undefined, Str(<<>>)} =>
       (parseFloat(f.minStars) # NaN /\ p.stars >= parseFloat(f.minStars))
  /\ f.isBestSeller # Undefined => p.isBestSeller = SuppliedFlag(f.isBestSeller)

(* C27: what _fallbackSearch returns is a permutation of the matching      *)
(* products of the catalog: every matching product is in it exactly once   *)
(* and nothing else is.                                                    *)
C27_FallbackIsMatchingSubset ==
  \A r \in Req :
    (Failed(calls[r]) /\ calls[r].settled = "returned") =>
      LET c == calls[r]
          matching == {i \in 1..Len(products) : Matching(products[i], c.query, c.filters)}
      IN  /\ Len(c.returned) = Cardinality(matching)
          /\ \A i \in matching :
               Cardinality({j \in 1..Len(c.returned) : c.returned[j] = products[i]}) = 1
          /\ \A j \in 1..Len(c.returned) : \E i \in matching : c.returned[j] = products[i]

(* The fallback answered under a filter with two of the products, in an    *)
(* order that is not the catalog's.                                        *)
C27_Witness ==
  \E r \in Req :
    /\ Failed(calls[r]) /\ calls[r].settled = "returned"
    /\ calls[r].filters.isBestSeller = Str(<<"t","r","u","e">>)
    /\ Len(products) > 2
    /\ Len(calls[r].returned) = 2
    /\ calls[r].returned # SelectSeq(products, LAMBDA p : p \in {calls[r].returned[1], calls[r].returned[2]})

(* The page parameter of the k-th page. *)
PageParam(k) == Str(<<DigitChars[k + 1]>>)

(* The results lists of pages 1 to k of a sequence, one after the other. *)
RECURSIVE PagesUpTo(_, _, _)
PagesUpTo(allResults, limit, k) ==
  IF k = 0 THEN <<>>
  ELSE PagesUpTo(allResults, limit, k - 1) \o paginatedResults(allResults, PageParam(k), limit)

(* C28: for a whole limit of 1 or more (absent: 10), the results lists of  *)
(* the pages 1 to ceil(total / limit) over one result sequence, put one    *)
(* after the other, are that sequence; the list a request for one of       *)
(* these pages gets is that page's.                                        *)
C28_PagesPartitionResults ==
  \A r \in Req :
    LET c == calls[r]
        lim == ToNumber(c.limit)
    IN  (Answered(c) /\ IsIntegral(lim) /\ lim >= 100) =>
          LET n == CHOOSE k \in 0..Len(c.returned) : IsCeilOf(100 * k, 100 * Len(c.returned), lim)
          IN  /\ PagesUpTo(c.returned, c.limit, n) = c.returned
              /\ \A k \in 1..n :
                   ToNumber(c.page) = 100 * k =>
                     c.res.body.results = paginatedResults(c.returned, PageParam(k), c.limit)

(* A request got the second, shorter page of a sequence of three products  *)
(* cut in pages of two.                                                    *)
C28_Witness ==
  \E r \in Req :
    /\ Answered(calls[r]) /\ Len(calls[r].returned) = 3
    /\ calls[r].limit = Str(<<"2">>) /\ calls[r].page = Str(<<"2">>)
    /\ calls[r].res.body.results = <<calls[r].returned[3]>>
    /\ PagesUpTo(calls[r].returned, calls[r].limit, 2) = calls[r].returned

(* /api/products/p for the path /api/p *)
AliasOf(path) == <<P_api, P_products>> \o Rest(path, <<P_api>>)

(* A route registered before the mount under /api answers the request. *)
ClaimedEarlier(method, path) ==
  \/ /\ Mounted(path, <<P_api, P_categories>>)
     /\ rootRoute(method, Rest(path, <<P_api, P_categories>>))
  \/ /\ Mounted(path, <<P_api, P_products>>)
     /\ productRoute(method, Rest(path, <<P_api, P_products>>)) # "next"

(* The request of c sent to /api/products/p, up to where c is and with the *)
(* engine outcome c met.                                                   *)
Twin(c) ==
  LET start == dispatch(IdleCall, "GET", AliasOf(c.path), c.req)
  IN  IF start.pc = "done" \/ c.pc = "awaitEngine" THEN start
      ELSE IF c.outcome = "hits" THEN formatResults(start)
      ELSE catchAndFallback(start, c.outcome)

(* C29 as stated: for every path suffix p, a GET on /api/p that no earlier *)
(* route claims has the handler and the response of the GET on             *)
(* /api/products/p.                                                        *)
C29_AliasSameHandler ==
  \A r \in Req :
    LET c == calls[r]
    IN  (/\ c.method = "GET" /\ Mounted(c.path, <<P_api>>)
         /\ ~ClaimedEarlier(c.method, c.path)) =>
          /\ Twin(c).via = c.via
          /\ Twin(c).res = c.res

(* C29 as amended: for every path suffix p that is not empty, a GET on     *)
(* /api/p that no earlier route claims has the handler and the response of *)
(* the GET on /api/products/p.                                             *)
C29_AliasSameHandlerNonEmpty ==
  \A r \in Req :
    LET c == calls[r]
    IN  (/\ c.method = "GET" /\ Mounted(c.path, <<P_api>>)
         /\ Rest(c.path, <<P_api>>) # <<>>
         /\ ~ClaimedEarlier(c.method, c.path)) =>
          /\ Twin(c).via = c.via
          /\ Twin(c).res = c.res

(* GET /api/B08N5WRWNW was answered with the product, as                   *)
(* GET /api/products/B08N5WRWNW is.                                        *)
C29_Witness ==
  \E r \in Req :
    /\ calls[r].method = "GET"
    /\ calls[r].path = <<P_api, SamsoniteLuggage.asin>>
    /\ calls[r].via = "getById"
    /\ calls[r].res = [status |-> 200, body |-> SamsoniteLuggage]
    /\ Twin(calls[r]).res = calls[r].res

(* Products that differ in one field, on both sides of every bound and     *)
(* value of the inputs.                                                    *)
ProbesOf(field, values) == {[SionLuggage EXCEPT ![field] = v] : v \in values}

PriceProbes == ProbesOf("price", {0 - 100, 0, 11999, 12000, 12001, 12999, 13000, 13001})

StarsProbes == ProbesOf("stars", {0, 450, 460, 470})

CategoryProbes == ProbesOf("category_id", {0, 10400, 20100})

FlagProbes == ProbesOf("isBestSeller", BOOLEAN)

(* The evaluator's verdict on a probe under the one filter. *)
PassesOnly(p, field, v) == PassesFallback(p, Undefined, [NoFilters EXCEPT ![field] = v])

(* The evaluator applies the predicate of the filter: it turns a probe     *)
(* away.                                                                   *)
Applies(probes, field, v) == \E p \in probes : ~PassesOnly(p, field, v)

(* C30: for every filter set, the engine query has a clause for a filter   *)
(* exactly when the evaluator applies the predicate of that filter, and    *)
(* the bound or value in the clause is the one the evaluator compares      *)
(* with.                                                                   *)
C30_SameFiltersBothPaths ==
  \A r \in Req :
    calls[r].searchCalls > 0 =>
      LET f == calls[r].filters
          filter == calls[r].body.query.filter
          cat == ClausesOn(filter, "term", "category_id")
          price == ClausesOn(filter, "range", "price")
          stars == ClausesOn(filter, "range", "stars")
          best == ClausesOn(filter, "term", "isBestSeller")
      IN  /\ (cat # {}) <=> Applies(CategoryProbes, "category_id", f.category_id)
          /\ \A i \in cat : \A p \in CategoryProbes :
               PassesOnly(p, "category_id", f.category_id)
                 <=> jsStrictEq(p.category_id, filter[i].value)
          /\ (\E i \in price : "gte" \in DOMAIN filter[i].range)
               <=> Applies(PriceProbes, "minPrice", f.minPrice)
          /\ (\E i \in price : "lte" \in DOMAIN filter[i].range)
               <=> Applies(PriceProbes, "maxPrice", f.maxPrice)
          /\ \A i \in price : \A p \in PriceProbes :
               /\ "gte" \in DOMAIN filter[i].range =>
                    (PassesOnly(p, "minPrice", f.minPrice) <=> jsGe(p.price, filter[i].range.gte))
               /\ "lte" \in DOMAIN filter[i].range =>
                    (PassesOnly(p, "maxPrice", f.maxPrice) <=> jsLe(p.price, filter[i].range.lte))
          /\ (stars # {}) <=> Applies(StarsProbes, "minStars", f.minStars)
          /\ \A i \in stars : \A p \in StarsProbes :
               PassesOnly(p, "minStars", f.minStars) <=> jsGe(p.stars, filter[i].range.gte)
          /\ (best # {}) <=> Applies(FlagProbes, "isBestSeller", f.isBestSeller)
          /\ \A i \in best : \A p \in FlagProbes :
               PassesOnly(p, "isBestSeller", f.isBestSeller) <=> (p.isBestSeller = filter[i].value)
          /\ Len(filter) = Cardinality(cat \cup price \cup stars \cup best)

(* A request with a price floor that is no number, a rating floor and the  *)
(* flag was sent to the engine and then evaluated in memory.               *)
C30_Witness ==
  \E r \in Req :
    /\ calls[r].searchCalls > 0 /\ Failed(calls[r]) /\ calls[r].fallbackRuns > 0
    /\ calls[r].filters.minPrice = Str(<<"a","b","c">>)
    /\ calls[r].filters.minStars = Str(<<"4",".","6">>)
    /\ calls[r].filters.isBestSeller = Bool(FALSE)
    /\ Len(calls[r].body.query.filter) = 3

====
